---- MODULE Spec2Model ----
(***************************************************************************)
(* Model of src/app.js: a command-line tool that encrypts or decrypts one  *)
(* file with crypto-js AES keyed by a passphrase.                          *)
(*                                                                         *)
(* Text (file contents, plaintext, ciphertext) is a sequence of character  *)
(* codes.  Paths, keys and console lines are TLA+ strings.                 *)
(*                                                                         *)
(* The crypto-js calls of lines 15 and 28-29 are modelled by the pipeline  *)
(* the library runs for a passphrase: UTF-8 encode, PKCS#7 pad, derive     *)
(* (key, iv) from passphrase and salt, CBC, OpenSSL "Salted__" framing,    *)
(* Base64; and its inverse.  Bytes are scaled down to 0..ByteMod-1 and the *)
(* block cipher is a keyed byte permutation, so that the pipeline can be   *)
(* computed exhaustively.                                                  *)
(***************************************************************************)
EXTENDS Naturals, Sequences, FiniteSets, TLC

(***************************************************************************)
(* Bounds of the exploration.                                              *)
(***************************************************************************)
MaxLen  == 2      \* longest plaintext initially on disk
MaxArgs == 4      \* longest command line explored exhaustively
MaxRuns == 2      \* invocations in a session

(***************************************************************************)
(* cryptoJs.enc.Utf8 -- characters 0..AsciiMax are one byte; the character *)
(* WideChar is the two bytes <<LeadByte, ContByte>>.                       *)
(***************************************************************************)
ByteMod   == 8
AsciiMax  == 5
LeadByte  == 6
ContByte  == 7
WideChar  == 6
BlockSize == 2

Malformed == [ok |-> FALSE]

RECURSIVE Utf8Parse(_)
Utf8Parse(str) ==
    IF str = <<>> THEN <<>>
    ELSE (IF Head(str) = WideChar THEN <<LeadByte, ContByte>> ELSE <<Head(str)>>)
         \o Utf8Parse(Tail(str))

\* decodeURIComponent(escape(latin1)): throws 'Malformed UTF-8 data' on a
\* stray lead or continuation byte.
RECURSIVE Utf8Stringify(_)
Utf8Stringify(bytes) ==
    IF bytes = <<>> THEN [ok |-> TRUE, s |-> <<>>]
    ELSE IF Head(bytes) <= AsciiMax
         THEN LET r == Utf8Stringify(Tail(bytes))
              IN  IF r.ok THEN [ok |-> TRUE, s |-> <<Head(bytes)>> \o r.s] ELSE Malformed
    ELSE IF Head(bytes) = LeadByte /\ Len(bytes) >= 2 /\ bytes[2] = ContByte
         THEN LET r == Utf8Stringify(Tail(Tail(bytes)))
              IN  IF r.ok THEN [ok |-> TRUE, s |-> <<WideChar>> \o r.s] ELSE Malformed
    ELSE Malformed

(***************************************************************************)
(* CryptoJS.pad.Pkcs7                                                      *)
(***************************************************************************)
Pkcs7Pad(bytes) ==
    LET n == BlockSize - (Len(bytes) % BlockSize)
    IN  bytes \o [i \in 1..n |-> n]

\* unpad: sigBytes -= last byte; a non-positive sigBytes reads as no bytes.
Pkcs7Unpad(bytes) ==
    LET n == IF bytes = <<>> THEN 0 ELSE bytes[Len(bytes)]
    IN  IF Len(bytes) > n THEN SubSeq(bytes, 1, Len(bytes) - n) ELSE <<>>

(***************************************************************************)
(* Key derivation (CryptoJS.kdf.OpenSSL) and the block cipher in CBC mode. *)
(* PassCode stands for the hash of the passphrase: distinct passphrases    *)
(* have distinct codes.                                                    *)
(***************************************************************************)
Passphrases == <<"mySecretKey", "k1", "encrypt", "decrypt", "foo", "a.txt", "a.txt.enc">>

PassCode(pass) ==
    IF \E i \in 1..Len(Passphrases) : Passphrases[i] = pass
    THEN CHOOSE i \in 1..Len(Passphrases) : Passphrases[i] = pass
    ELSE 0

Kdf(pass, salt) ==
    [key |-> (PassCode(pass) + salt) % ByteMod,
     iv  |-> (2 * PassCode(pass) + salt) % ByteMod]

\* the byte chained into position i: the IV for the first block, the
\* ciphertext one block earlier afterwards
Chain(ct, iv, i) == IF i <= BlockSize THEN iv ELSE ct[i - BlockSize]

RECURSIVE CbcEncrypt(_, _, _)
CbcEncrypt(pt, k, done) ==
    IF Len(done) = Len(pt) THEN done
    ELSE LET i == Len(done) + 1
         IN  CbcEncrypt(pt, k,
                 Append(done, (pt[i] + Chain(done, k.iv, i) + k.key) % ByteMod))

CbcDecrypt(ct, k) ==
    [i \in 1..Len(ct) |->
        (ct[i] + 2 * ByteMod - k.key - Chain(ct, k.iv, i)) % ByteMod]

(***************************************************************************)
(* CryptoJS.format.OpenSSL and CryptoJS.enc.Base64: the ciphertext text is *)
(* Base64 of "Salted__" + salt + ciphertext.  A byte is two digits of      *)
(* radix B64Radix; a character outside the alphabet reads as digit 0.      *)
(***************************************************************************)
B64Radix == 3
Magic    == <<5, 3>>

RECURSIVE B64Stringify(_)
B64Stringify(bytes) ==
    IF bytes = <<>> THEN <<>>
    ELSE <<Head(bytes) \div B64Radix, Head(bytes) % B64Radix>> \o B64Stringify(Tail(bytes))

B64Digit(c) == IF c < B64Radix THEN c ELSE 0

B64Parse(text) ==
    [i \in 1..(Len(text) \div 2) |->
        (B64Digit(text[2 * i - 1]) * B64Radix + B64Digit(text[2 * i])) % ByteMod]

OpenSSLStringify(salt, ct) == B64Stringify(Magic \o <<salt>> \o ct)

\* salted: the text carries the "Salted__" prefix and a salt
OpenSSLParse(text) ==
    LET bytes == B64Parse(text)
    IN  IF Len(bytes) > Len(Magic) /\ SubSeq(bytes, 1, Len(Magic)) = Magic
        THEN [salted |-> TRUE, salt |-> bytes[Len(Magic) + 1],
              ct |-> SubSeq(bytes, Len(Magic) + 2, Len(bytes))]
        ELSE [salted |-> FALSE, salt |-> 0, ct |-> bytes]

(***************************************************************************)
(* cryptoJs.AES.encrypt(data, key).toString()  -- line 15.  salt is the    *)
(* random salt the library draws.                                          *)
(***************************************************************************)
Encrypt(data, key, salt) ==
    OpenSSLStringify(salt, CbcEncrypt(Pkcs7Pad(Utf8Parse(data)), Kdf(key, salt), <<>>))

(***************************************************************************)
(* cryptoJs.AES.decrypt(data, key).toString(cryptoJs.enc.Utf8) -- lines    *)
(* 28-29.  rnd is the random salt the library draws when the text carries  *)
(* none.  The result is [ok |-> TRUE, s |-> text] or Malformed (a throw).  *)
(***************************************************************************)
\* decryptedData.toString() without the Utf8 encoder: the digits of the bytes
DecryptNoEncoder(data, key, rnd) ==
    LET p == OpenSSLParse(data)
        k == Kdf(key, IF p.salted THEN p.salt ELSE rnd)
    IN  [ok |-> TRUE, s |-> B64Stringify(Pkcs7Unpad(CbcDecrypt(p.ct, k)))]

\* a decrypt that treats an empty result as a wrong key and throws
DecryptRejectingEmpty(data, key, rnd) ==
    LET p == OpenSSLParse(data)
        k == Kdf(key, IF p.salted THEN p.salt ELSE rnd)
        r == Utf8Stringify(Pkcs7Unpad(CbcDecrypt(p.ct, k)))
    IN  IF r.ok /\ r.s = <<>> THEN Malformed ELSE r

Decrypt(data, key, rnd) ==
    LET p == OpenSSLParse(data)
        k == Kdf(key, IF p.salted THEN p.salt ELSE rnd)
    IN  Utf8Stringify(Pkcs7Unpad(CbcDecrypt(p.ct, k)))

(***************************************************************************)
(* Command-line arguments.  An argument is recorded by the lexical shape   *)
(* util.parseArgs recognises:                                              *)
(*   Pos(v)          a word that does not start with '-'                   *)
(*   Long(n)         --n             LongEq(n, v)    --n=v                 *)
(*   Short(c)        -c              ShortVal(c, v)  -cv                   *)
(*   Term            --                                                    *)
(***************************************************************************)
Pos(v)         == [k |-> "pos", v |-> v]
Long(n)        == [k |-> "long", n |-> n]
LongEq(n, v)   == [k |-> "longeq", n |-> n, v |-> v]
Short(c)       == [k |-> "short", n |-> c]
ShortVal(c, v) == [k |-> "shortval", n |-> c, v |-> v]
Term           == [k |-> "term"]

\* the argument as typed
Raw(arg) ==
    CASE arg.k = "pos"      -> arg.v
      [] arg.k = "long"     -> "--" \o arg.n
      [] arg.k = "longeq"   -> "--" \o arg.n \o "=" \o arg.v
      [] arg.k = "short"    -> "-" \o arg.n
      [] arg.k = "shortval" -> "-" \o arg.n \o arg.v
      [] arg.k = "term"     -> "--"

StartsWithDash(arg) == arg.k # "pos"

\* lines 47-56
options == [output |-> [type |-> "string", short |-> "o"],
            key    |-> [type |-> "string", short |-> "k"]]

\* findLongOptionForShort: the long name, or the short character itself
LongOptionFor(arg) ==
    IF arg.k \in {"short", "shortval"}
    THEN IF \E n \in DOMAIN options : options[n].short = arg.n
         THEN CHOOSE n \in DOMAIN options : options[n].short = arg.n
         ELSE arg.n
    ELSE arg.n

IsStringOption(name) == name \in DOMAIN options /\ options[name].type = "string"

NoValue == [k |-> "undefined"]

\* argsToTokens: a lone -c or --n of a string option consumes the next
\* argument, whatever it looks like; everything after -- is positional.
RECURSIVE ArgsToTokens(_)
ArgsToTokens(rem) ==
    IF rem = <<>> THEN <<>>
    ELSE LET arg  == Head(rem)
             rest == Tail(rem)
         IN  CASE arg.k = "term" ->
                    [i \in 1..Len(rest) |-> [kind |-> "positional", value |-> Raw(rest[i])]]
               [] arg.k \in {"short", "long"} ->
                    LET name  == LongOptionFor(arg)
                        takes == IsStringOption(name) /\ rest # <<>>
                    IN  <<[kind |-> "option", name |-> name,
                           value |-> IF takes THEN Head(rest) ELSE NoValue,
                           inlineValue |-> FALSE]>>
                        \o ArgsToTokens(IF takes THEN Tail(rest) ELSE rest)
               [] arg.k \in {"shortval", "longeq"} ->
                    <<[kind |-> "option", name |-> LongOptionFor(arg),
                       value |-> Pos(arg.v), inlineValue |-> TRUE]>>
                    \o ArgsToTokens(rest)
               [] arg.k = "pos" ->
                    <<[kind |-> "positional", value |-> arg.v]>> \o ArgsToTokens(rest)

\* parseArgs called with strict: false
OptionErrorNotStrict(token) == "none"

\* strict mode (the default: line 58 passes no strict: false):
\* checkOptionUsage and checkOptionLikeValue
OptionError(token) ==
    IF token.name \notin DOMAIN options THEN "ERR_PARSE_ARGS_UNKNOWN_OPTION"
    ELSE IF options[token.name].type = "string" /\ token.value = NoValue
         THEN "ERR_PARSE_ARGS_INVALID_OPTION_VALUE"
    ELSE IF ~token.inlineValue /\ StartsWithDash(token.value)
         THEN "ERR_PARSE_ARGS_INVALID_OPTION_VALUE"
    ELSE "none"

\* storeOption: the value, or true for an option that carries none
StoredValue(token) == IF token.value = NoValue THEN TRUE ELSE Raw(token.value)

RECURSIVE StoreTokens(_, _)
StoreTokens(tokens, acc) ==
    IF tokens = <<>> THEN acc
    ELSE LET t == Head(tokens)
         IN  IF t.kind = "positional"
             THEN StoreTokens(Tail(tokens),
                      [acc EXCEPT !.positionals = Append(@, t.value)])
             ELSE IF OptionError(t) # "none"
                  THEN [acc EXCEPT !.error = OptionError(t)]
                  ELSE StoreTokens(Tail(tokens),
                           [acc EXCEPT !.values =
                               [n \in DOMAIN @ \cup {t.name} |->
                                   IF n = t.name THEN StoredValue(t) ELSE @[n]]])

NoArgs == [error |-> "none", values |-> <<>>, positionals |-> <<>>]

\* parseArgs({args, options, allowPositionals: true}) -- lines 58-62.
\* error # "none" is a thrown TypeError.
parseArgs(arguments) == StoreTokens(ArgsToTokens(arguments), NoArgs)

\* the check written as length < 2
BadPositionalCountBelow(parsed) == Len(parsed.positionals) < 2

\* line 64
BadPositionalCount(parsed) == Len(parsed.positionals) # 2

\* the encrypt branch taken for everything but decrypt
IsEncryptUnlessDecrypt(a) == a # "decrypt"

\* lines 73, 82
IsEncrypt(a) == a = "encrypt"
IsDecrypt(a) == a = "decrypt"

(***************************************************************************)
(* The program state.                                                      *)
(***************************************************************************)
VARIABLES
    argv,            \* process.argv.slice(2)
    args,            \* line 58
    pc,              \* position of the top-level script
    action,          \* line 69
    inputFilePath,   \* line 70
    encryptionKey,   \* line 71
    outputFilePath,  \* line 74 / 83
    inputFileData,   \* line 14 / 27
    outputData,      \* encryptedData (line 15) / decrypted text (line 29)
    fs,              \* the file system: path -> text, for the files that exist
    stdout,          \* console.log lines
    stderr,          \* console.trace / console.error lines, uncaught errors
    exitCode,        \* the exit status, final once pc = "Terminal"
    calls,           \* history: encryptFile / decryptFile invocations of this run
    transforms,      \* history: cipher operations run by this run
    reads,           \* history: readFile calls of this run
    writes,          \* history: writeFile calls of this run
    failedAt,        \* history: the step of this run that threw, or "none"
    fs0,             \* history: the file system when this run started
    log,             \* history: one record per finished run
    run              \* number of the current run

vars == <<argv, args, pc, action, inputFilePath, encryptionKey, outputFilePath,
          inputFileData, outputData, fs, stdout, stderr, exitCode, calls,
          transforms, reads, writes, failedAt, fs0, log, run>>

locals == <<action, inputFilePath, encryptionKey, outputFilePath,
            inputFileData, outputData>>
history == <<calls, transforms, reads, writes, failedAt>>

MaxSalt == 1
Salts   == 0..MaxSalt

\* another literal
DefaultKeyOther == "k1"

\* line 71
DefaultKey == "mySecretKey"
Usage      == "Usage: npm start encrypt|decrypt <input file> -- [options]"
Trace      == "Trace: Error"

RECURSIVE SeqsUpTo(_, _)
SeqsUpTo(S, n) ==
    IF n = 0 THEN {<<>>}
    ELSE LET shorter == SeqsUpTo(S, n - 1)
         IN  shorter \cup {Append(q, e) : q \in shorter, e \in S}

Plaintexts == SeqsUpTo({1, WideChar}, MaxLen)

\* what a file may hold before the first run: a plaintext or a ciphertext
Contents ==
    Plaintexts \cup {Encrypt(p, DefaultKey, 0) : p \in SeqsUpTo({1, WideChar}, 1)}

OldData == <<0>>

ArgTokens ==
    {Pos("encrypt"), Pos("decrypt"), Pos("foo"), Pos("a.txt"),
     Short("k"), LongEq("output", "out"), Long("bogus"), Term}

ArgvSet == SeqsUpTo(ArgTokens, MaxArgs)

InitFs ==
    {<<>>}
    \cup {[p \in {"a.txt"} |-> c] : c \in Contents}
    \cup {[p \in D |-> IF p = "a.txt" THEN Encrypt(<<1, WideChar>>, "foo", 1) ELSE OldData] :
             D \in {{"a.txt.enc", "out"}, {"a.txt", "a.txt.enc", "a.txt.txt", "out"}}}

\* well-formed command lines of a session
CommandLines ==
    {<<Pos(a), Pos(p)>> \o k \o o :
        a \in {"encrypt", "decrypt"},
        p \in {"a.txt", "a.txt.enc"},
        k \in {<<>>, <<Long("key"), Pos("k1")>>, <<ShortVal("k", DefaultKey)>>},
        o \in {<<>>, <<Short("o"), Pos("a.txt")>>}}

Fresh ==
    /\ pc = "ParsingArgs"
    /\ args = NoArgs
    /\ action = "" /\ inputFilePath = "" /\ encryptionKey = "" /\ outputFilePath = ""
    /\ inputFileData = <<>> /\ outputData = <<>>
    /\ stdout = <<>> /\ stderr = <<>> /\ exitCode = 0
    /\ calls = <<>> /\ transforms = <<>> /\ reads = <<>> /\ writes = <<>>
    /\ failedAt = "none"

Init ==
    /\ argv \in ArgvSet
    /\ fs \in InitFs
    /\ fs0 = fs
    /\ log = <<>>
    /\ run = 1
    /\ Fresh

InitSession ==
    /\ argv \in CommandLines
    /\ fs \in {[p \in {"a.txt"} |-> c] : c \in Plaintexts}
    /\ fs0 = fs
    /\ log = <<>>
    /\ run = 1
    /\ Fresh

\* the record of the run that is terminating
LogEntry(result) ==
    [argv |-> argv, action |-> action, input |-> inputFilePath, key |-> encryptionKey,
     output |-> outputFilePath, read |-> inputFileData, written |-> outputData,
     result |-> result]

(***************************************************************************)
(* Lines 58-71: parse the arguments, check the positional count, bind      *)
(* action, inputFilePath and encryptionKey.  A TypeError thrown by         *)
(* parseArgs is uncaught: the runtime prints it and exits with status 1.   *)
(***************************************************************************)
ParseArgs ==
    /\ pc = "ParsingArgs"
    /\ args' = parseArgs(argv)
    /\ LET parsed == parseArgs(argv)
       IN  IF parsed.error # "none"
           THEN /\ stderr' = Append(stderr, "TypeError [" \o parsed.error \o "]")
                /\ exitCode' = 1
                /\ pc' = "Terminal"
                /\ log' = Append(log, LogEntry("throw"))
                /\ UNCHANGED <<stdout, action, inputFilePath, encryptionKey>>
           ELSE IF BadPositionalCount(parsed)
           THEN /\ stdout' = Append(stdout, Usage)
                /\ exitCode' = 1
                /\ pc' = "Terminal"
                /\ log' = Append(log, LogEntry("usage"))
                /\ UNCHANGED <<stderr, action, inputFilePath, encryptionKey>>
           ELSE /\ action' = parsed.positionals[1]
                /\ inputFilePath' = parsed.positionals[2]
                /\ encryptionKey' = IF "key" \in DOMAIN parsed.values
                                    THEN parsed.values.key ELSE DefaultKey
                /\ pc' = "Executing"
                /\ UNCHANGED <<stdout, stderr, exitCode, log>>
    /\ UNCHANGED <<argv, outputFilePath, inputFileData, outputData, fs, history, fs0, run>>

\* the option ignored
OutputPathIgnoringOption(parsed, input, suffix) == input \o suffix

\* args.values.output ?? inputFilePath + suffix  (lines 74, 83)
OutputPathFor(parsed, input, suffix) ==
    IF "output" \in DOMAIN parsed.values THEN parsed.values.output ELSE input \o suffix

(***************************************************************************)
(* Lines 73-76, 82-85, 91-94: select the branch.                           *)
(***************************************************************************)
Dispatch ==
    /\ pc = "Executing"
    /\ IF IsEncrypt(action)
       THEN /\ outputFilePath' = OutputPathFor(args, inputFilePath, ".enc")
            /\ calls' = Append(calls, "encryptFile")
            /\ pc' = "Reading"
            /\ UNCHANGED <<stdout, exitCode, log>>
       ELSE IF IsDecrypt(action)
       THEN /\ outputFilePath' = OutputPathFor(args, inputFilePath, ".txt")
            /\ calls' = Append(calls, "decryptFile")
            /\ pc' = "Reading"
            /\ UNCHANGED <<stdout, exitCode, log>>
       ELSE /\ stdout' = stdout \o <<"Unknown action: " \o action \o ".", Usage>>
            /\ pc' = "Terminal"
            /\ log' = Append(log, LogEntry("unknown"))
            /\ UNCHANGED <<outputFilePath, calls, exitCode>>
    /\ UNCHANGED <<argv, args, action, inputFilePath, encryptionKey, inputFileData,
                   outputData, fs, stderr, transforms, reads, writes, failedAt,
                   fs0, run>>

(***************************************************************************)
(* Lines 14, 27: await fs.promises.readFile(inputFilePath, 'utf-8').       *)
(* Fails when the file does not exist, or on an I/O error.                 *)
(***************************************************************************)
ReadOutcomes == IF inputFilePath \in DOMAIN fs THEN {"ok", "EACCES"} ELSE {"ENOENT"}

\* the output file opened for writing (and truncated) before the read
ReadFileOpensOutputFirst ==
    /\ pc = "Reading"
    /\ reads' = Append(reads, inputFilePath)
    /\ fs' = [p \in DOMAIN fs \cup {outputFilePath} |->
                 IF p = outputFilePath THEN <<>> ELSE fs[p]]
    /\ \E outcome \in ReadOutcomes :
          IF outcome = "ok"
          THEN /\ inputFileData' = fs[inputFilePath]
               /\ pc' = "Transforming"
               /\ UNCHANGED failedAt
          ELSE /\ failedAt' = "read"
               /\ pc' = "Caught"
               /\ UNCHANGED inputFileData
    /\ UNCHANGED <<argv, args, action, inputFilePath, encryptionKey, outputFilePath,
                   outputData, stdout, stderr, exitCode, calls, transforms,
                   writes, fs0, log, run>>

ReadFile ==
    /\ pc = "Reading"
    /\ reads' = Append(reads, inputFilePath)
    /\ \E outcome \in ReadOutcomes :
          IF outcome = "ok"
          THEN /\ inputFileData' = fs[inputFilePath]
               /\ pc' = "Transforming"
               /\ UNCHANGED failedAt
          ELSE /\ failedAt' = "read"
               /\ pc' = "Caught"
               /\ UNCHANGED inputFileData
    /\ UNCHANGED <<argv, args, action, inputFilePath, encryptionKey, outputFilePath,
                   outputData, fs, stdout, stderr, exitCode, calls, transforms,
                   writes, fs0, log, run>>

(***************************************************************************)
(* Line 15 (encryptFile) and lines 28-29 (decryptFile): the cipher call,   *)
(* evaluated before writeFile is called.                                   *)
(***************************************************************************)
Transform ==
    /\ pc = "Transforming"
    /\ \E salt \in Salts :
          IF calls[Len(calls)] = "encryptFile"
          THEN /\ outputData' = Encrypt(inputFileData, encryptionKey, salt)
               /\ transforms' = Append(transforms, "encrypt")
               /\ pc' = "Writing"
               /\ UNCHANGED failedAt
          ELSE LET r == Decrypt(inputFileData, encryptionKey, salt)
               IN  /\ transforms' = Append(transforms, "decrypt")
                   /\ IF r.ok
                      THEN /\ outputData' = r.s
                           /\ pc' = "Writing"
                           /\ UNCHANGED failedAt
                      ELSE /\ failedAt' = "transform"
                           /\ pc' = "Caught"
                           /\ UNCHANGED outputData
    /\ UNCHANGED <<argv, args, action, inputFilePath, encryptionKey, outputFilePath,
                   inputFileData, fs, stdout, stderr, exitCode, calls, reads,
                   writes, fs0, log, run>>

(***************************************************************************)
(* Lines 16, 29: await fs.promises.writeFile(outputFilePath, data).        *)
(* The file is created or replaced; the call may fail before the file is   *)
(* opened (EACCES) or after it was truncated (ENOSPC).                     *)
(***************************************************************************)
\* the data written over the input file
WriteTextToInput(files, path, data) ==
    [p \in DOMAIN files \cup {inputFilePath} |->
        IF p = inputFilePath THEN data ELSE files[p]]

WriteText(files, path, data) ==
    [p \in DOMAIN files \cup {path} |-> IF p = path THEN data ELSE files[p]]

WriteFile ==
    /\ pc = "Writing"
    /\ \E outcome \in {"ok", "EACCES", "ENOSPC"} :
          /\ writes' = Append(writes, [path |-> outputFilePath, outcome |-> outcome])
          /\ fs' = CASE outcome = "ok"     -> WriteText(fs, outputFilePath, outputData)
                     [] outcome = "ENOSPC" -> WriteText(fs, outputFilePath, <<>>)
                     [] outcome = "EACCES" -> fs
          /\ IF outcome = "ok"
             THEN pc' = "Written" /\ UNCHANGED failedAt
             ELSE pc' = "Caught" /\ failedAt' = "write"
    /\ UNCHANGED <<argv, args, locals, stdout, stderr, exitCode, calls, transforms,
                   reads, fs0, log, run>>

(***************************************************************************)
(* Lines 77, 86: the success line.                                         *)
(***************************************************************************)
Verb == IF calls = <<"encryptFile">> THEN "encrypt" ELSE "decrypt"

SuccessLine ==
    "Successfully " \o Verb \o "ed " \o inputFilePath \o ", and saved to "
        \o outputFilePath \o "."

\* the failure line naming the output path
FailureLineOutputPath == "Failed to " \o Verb \o " " \o outputFilePath \o "."

FailureLine == "Failed to " \o Verb \o " " \o inputFilePath \o "."

ReportSuccess ==
    /\ pc = "Written"
    /\ stdout' = Append(stdout, SuccessLine)
    /\ pc' = "Terminal"
    /\ log' = Append(log, LogEntry("success"))
    /\ UNCHANGED <<argv, args, locals, fs, stderr, exitCode, history, fs0, run>>

(***************************************************************************)
(* Lines 78-81, 87-90: the catch block.                                    *)
(***************************************************************************)
Catch ==
    /\ pc = "Caught"
    /\ stderr' = stderr \o <<Trace, FailureLine>>
    /\ pc' = "Terminal"
    /\ log' = Append(log, LogEntry("failure"))
    /\ UNCHANGED <<argv, args, locals, fs, stdout, exitCode, history, fs0, run>>

Next ==
    \/ ParseArgs
    \/ Dispatch
    \/ ReadFile
    \/ Transform
    \/ WriteFile
    \/ ReportSuccess
    \/ Catch

Spec == Init /\ [][Next]_vars

(***************************************************************************)
(* A session: the program is run again on the files the previous run left. *)
(***************************************************************************)
Restart ==
    /\ pc = "Terminal"
    /\ run < MaxRuns
    /\ argv' \in CommandLines
    /\ run' = run + 1
    /\ fs0' = fs
    /\ pc' = "ParsingArgs"
    /\ args' = NoArgs
    /\ action' = "" /\ inputFilePath' = "" /\ encryptionKey' = "" /\ outputFilePath' = ""
    /\ inputFileData' = <<>> /\ outputData' = <<>>
    /\ stdout' = <<>> /\ stderr' = <<>> /\ exitCode' = 0
    /\ calls' = <<>> /\ transforms' = <<>> /\ reads' = <<>> /\ writes' = <<>>
    /\ failedAt' = "none"
    /\ UNCHANGED <<fs, log>>

NextSession == Next \/ Restart

SpecSession == InitSession /\ [][NextSession]_vars

(***************************************************************************)
(* The command line, read off argv without running the parser.             *)
(***************************************************************************)
\* index of the first --, or one past the end
FirstTerm(a) ==
    IF \E i \in 1..Len(a) : a[i] = Term
    THEN CHOOSE i \in 1..Len(a) : a[i] = Term /\ \A j \in 1..(i - 1) : a[j] # Term
    ELSE Len(a) + 1

KnownLong  == {"output", "key"}
KnownShort == {"o", "k"}

IsKnown(x) ==
    \/ x.k \in {"long", "longeq"} /\ x.n \in KnownLong
    \/ x.k \in {"short", "shortval"} /\ x.n \in KnownShort

\* -o, -k, --output, --key without an attached value
IsLoneOption(x) == x.k \in {"short", "long"} /\ IsKnown(x)

\* the command line carries an unknown flag, or a flag whose value is
\* missing or starts with '-'
Rejected(a) ==
    \E i \in 1..Len(a) :
        /\ i < FirstTerm(a)
        /\ \/ a[i].k # "pos" /\ ~IsKnown(a[i])
           \/ IsLoneOption(a[i]) /\ (i = Len(a) \/ a[i + 1].k # "pos")

\* the arguments given by position: words that are not the value of the
\* flag before them, and everything after --
PositionalIndexes(a) ==
    {i \in 1..Len(a) :
        \/ i > FirstTerm(a)
        \/ i < FirstTerm(a) /\ a[i].k = "pos" /\ (i = 1 \/ ~IsLoneOption(a[i - 1]))}

NPositionals(a) == Cardinality(PositionalIndexes(a))

FirstPositional(a) ==
    Raw(a[CHOOSE i \in PositionalIndexes(a) : \A j \in PositionalIndexes(a) : i <= j])

\* the values given for the option long / short
OptionValues(a, long, short) ==
    {v \in {a[i].v : i \in {j \in 1..Len(a) : a[j].k \in {"pos", "longeq", "shortval"}}} :
        \E i \in 1..Len(a) :
            /\ i < FirstTerm(a)
            /\ \/ a[i] = LongEq(long, v)
               \/ a[i] = ShortVal(short, v)
               \/ a[i] \in {Long(long), Short(short)} /\ i < Len(a) /\ a[i + 1] = Pos(v)}

NothingExecuted ==
    calls = <<>> /\ reads = <<>> /\ transforms = <<>> /\ writes = <<>> /\ fs = fs0

SuccessText ==
    "Successfully " \o action \o "ed " \o inputFilePath \o ", and saved to "
        \o outputFilePath \o "."

FailureText == "Failed to " \o action \o " " \o inputFilePath \o "."

(***************************************************************************)
(* C2 as stated: whenever the number of positional arguments is not 2, the *)
(* usage text is printed to standard output, the exit code is 1 and        *)
(* nothing is executed.                                                    *)
(***************************************************************************)
C2_Original ==
    pc = "Terminal" /\ NPositionals(argv) # 2
        => stdout = <<Usage>> /\ exitCode = 1 /\ NothingExecuted

(***************************************************************************)
(* C2 amended: with a positional count other than 2 the process never      *)
(* enters Executing, touches no file and exits with code 1; it prints the  *)
(* usage text to standard output when the options parse, and otherwise     *)
(* only the uncaught parseArgs error on the error stream.                  *)
(***************************************************************************)
C2_PositionalCount ==
    NPositionals(argv) # 2 =>
        /\ pc \in {"ParsingArgs", "Terminal"}
        /\ NothingExecuted
        /\ pc = "Terminal" =>
              /\ exitCode = 1
              /\ IF Rejected(argv)
                 THEN stdout = <<>> /\ Len(stderr) = 1
                 ELSE stdout = <<Usage>> /\ stderr = <<>>

C2_Witness ==
    /\ pc = "Terminal"
    /\ NPositionals(argv) = 3
    /\ ~Rejected(argv)
    /\ OptionValues(argv, "output", "o") = {"out"}
    /\ stdout = <<Usage>>
    /\ exitCode = 1

(***************************************************************************)
(* C3: the output path is the --output/-o value when given, otherwise the  *)
(* whole input path with ".enc" (encrypt) or ".txt" (decrypt) appended;    *)
(* that path is the only one written.                                      *)
(***************************************************************************)
C3_OutputPath ==
    calls # <<>> =>
        LET given == OptionValues(argv, "output", "o")
        IN  /\ IF given = {}
               THEN outputFilePath =
                        inputFilePath \o (IF action = "encrypt" THEN ".enc" ELSE ".txt")
               ELSE outputFilePath \in given
            /\ given = {} /\ inputFilePath = "a.txt" /\ action = "encrypt"
                  => outputFilePath = "a.txt.enc"
            /\ given = {} /\ inputFilePath = "a.txt" /\ action = "decrypt"
                  => outputFilePath = "a.txt.txt"
            /\ \A i \in 1..Len(writes) : writes[i].path = outputFilePath
            /\ \A p \in (DOMAIN fs \cup DOMAIN fs0) \ {outputFilePath} :
                  p \in DOMAIN fs /\ p \in DOMAIN fs0 /\ fs[p] = fs0[p]

C3_Witness ==
    /\ pc = "Terminal"
    /\ action = "decrypt"
    /\ inputFilePath = "a.txt"
    /\ OptionValues(argv, "output", "o") = {}
    /\ writes = <<[path |-> "a.txt.txt", outcome |-> "ok"]>>
    /\ "a.txt.txt" \notin DOMAIN fs0
    /\ "a.txt.txt" \in DOMAIN fs

(***************************************************************************)
(* C4 as stated: with exactly 2 positional arguments whose first is        *)
(* neither encrypt nor decrypt, "Unknown action: <action>." and the usage  *)
(* text are printed, no file is touched and the exit code is 0.            *)
(***************************************************************************)
C4_Original ==
    /\ pc = "Terminal"
    /\ NPositionals(argv) = 2
    /\ FirstPositional(argv) \notin {"encrypt", "decrypt"}
    => /\ stdout = <<"Unknown action: " \o FirstPositional(argv) \o ".", Usage>>
       /\ NothingExecuted
       /\ exitCode = 0

(***************************************************************************)
(* C4 amended: the same, for command lines whose options parse.            *)
(***************************************************************************)
C4_UnknownAction ==
    /\ NPositionals(argv) = 2
    /\ FirstPositional(argv) \notin {"encrypt", "decrypt"}
    /\ ~Rejected(argv)
    => /\ NothingExecuted
       /\ pc \in {"ParsingArgs", "Executing", "Terminal"}
       /\ pc = "Terminal" =>
             /\ stdout = <<"Unknown action: " \o FirstPositional(argv) \o ".", Usage>>
             /\ stderr = <<>>
             /\ exitCode = 0

C4_Witness ==
    /\ pc = "Terminal"
    /\ action = "foo"
    /\ inputFilePath \in DOMAIN fs
    /\ OptionValues(argv, "output", "o") = {"out"}
    /\ stdout = <<"Unknown action: foo.", Usage>>
    /\ "out" \notin DOMAIN fs

(***************************************************************************)
(* C5 as stated: a non-zero exit code arises only from the positional      *)
(* count check; every invocation with exactly 2 positional arguments       *)
(* exits with code 0, whatever its options.                                *)
(***************************************************************************)
C5_Original ==
    pc = "Terminal" =>
        /\ exitCode # 0 => stdout = <<Usage>>
        /\ NPositionals(argv) = 2 => exitCode = 0

(***************************************************************************)
(* C5 amended: the exit code is 1 exactly when the positional count is not *)
(* 2 or the options do not parse (unknown flag, flag without a value,      *)
(* flag followed by a dash argument); it is 0 otherwise.                   *)
(***************************************************************************)
C5_ExitCode ==
    /\ exitCode \in {0, 1}
    /\ pc # "Terminal" => exitCode = 0
    /\ pc = "Terminal" =>
          (exitCode = 1 <=> (Rejected(argv) \/ NPositionals(argv) # 2))

C5_Witness ==
    /\ pc = "Terminal"
    /\ NPositionals(argv) = 2
    /\ "output" \in DOMAIN args.values
    /\ failedAt = "write"
    /\ exitCode = 0

(***************************************************************************)
(* C6: a failed read, transform or write is caught: the trace and          *)
(* "Failed to encrypt|decrypt <input>." are emitted, no success line is    *)
(* printed and the exit code is 0; the success line is printed only after  *)
(* the write to the output path has completed.                             *)
(***************************************************************************)
C6_FailureHandling ==
    /\ failedAt # "none" =>
          /\ pc \in {"Caught", "Terminal"}
          /\ action \in {"encrypt", "decrypt"}
          /\ stdout = <<>>
          /\ exitCode = 0
          /\ pc = "Terminal" => stderr = <<Trace, FailureText>>
    /\ (\E i \in 1..Len(stdout) : stdout[i] = SuccessText) =>
          /\ failedAt = "none"
          /\ stderr = <<>>
          /\ writes = <<[path |-> outputFilePath, outcome |-> "ok"]>>
          /\ outputFilePath \in DOMAIN fs
          /\ fs[outputFilePath] = outputData
    /\ pc = "Terminal" /\ calls # <<>> /\ failedAt = "none" => stdout = <<SuccessText>>

C6_Witness ==
    /\ pc = "Terminal"
    /\ failedAt = "read"
    /\ stderr = <<Trace, "Failed to decrypt a.txt.">>
    /\ stdout = <<>>

(***************************************************************************)
(* C9: the read completes before the transform begins and the transform    *)
(* completes before the write begins; when the read or the transform       *)
(* fails no write is started and every file is as it was.                  *)
(***************************************************************************)
C9_Ordering ==
    /\ transforms # <<>> =>
          /\ reads = <<inputFilePath>>
          /\ failedAt # "read"
          /\ inputFilePath \in DOMAIN fs0
          /\ inputFileData = fs0[inputFilePath]
    /\ writes # <<>> => Len(transforms) = 1 /\ failedAt \notin {"read", "transform"}
    /\ failedAt \in {"read", "transform"} => writes = <<>> /\ fs = fs0
    /\ pc \in {"Reading", "Transforming", "Writing"} => writes = <<>> /\ fs = fs0

C9_Witness ==
    /\ pc = "Terminal"
    /\ failedAt = "transform"
    /\ outputFilePath \in DOMAIN fs0
    /\ fs[outputFilePath] = OldData

(***************************************************************************)
(* C10 as stated: every run that reaches Terminal has invoked exactly one  *)
(* transform operation and written at most one file.                       *)
(***************************************************************************)
C10_Original ==
    pc = "Terminal" => Len(transforms) = 1 /\ Len(writes) <= 1

(***************************************************************************)
(* C10 amended: a run invokes at most one of encryptFile / decryptFile,    *)
(* never both and never twice, and exactly one precisely when the          *)
(* arguments parse with two positionals and the action is encrypt or       *)
(* decrypt; the cipher operation of that function runs at most once, and   *)
(* once unless the read failed; at most one file, the output path, is      *)
(* written.                                                                *)
(***************************************************************************)
C10_AtMostOne ==
    /\ Len(calls) <= 1 /\ Len(reads) <= 1 /\ Len(transforms) <= 1 /\ Len(writes) <= 1
    /\ transforms = <<"encrypt">> => calls = <<"encryptFile">>
    /\ transforms = <<"decrypt">> => calls = <<"decryptFile">>
    /\ pc = "Terminal" =>
          /\ Len(calls) = 1 <=>
                /\ ~Rejected(argv)
                /\ NPositionals(argv) = 2
                /\ FirstPositional(argv) \in {"encrypt", "decrypt"}
          /\ calls = <<"encryptFile">> => FirstPositional(argv) = "encrypt"
          /\ calls = <<"decryptFile">> => FirstPositional(argv) = "decrypt"
          /\ Len(transforms) = 1 <=> (Len(calls) = 1 /\ failedAt # "read")
    /\ \A p \in (DOMAIN fs \cup DOMAIN fs0) \ {outputFilePath} :
          p \in DOMAIN fs /\ p \in DOMAIN fs0 /\ fs[p] = fs0[p]

C10_Witness ==
    /\ pc = "Terminal"
    /\ calls = <<"decryptFile">>
    /\ transforms = <<"decrypt">>
    /\ Len(writes) = 1
    /\ fs # fs0

(***************************************************************************)
(* Sessions: the run before the current one, and the two runs of a         *)
(* round trip.                                                             *)
(***************************************************************************)
Previous == log[run - 1]

\* the current run decrypts, with the key of the previous run or another,
\* the file the previous run encrypted successfully
DecryptsPrevious ==
    /\ run >= 2
    /\ calls = <<"decryptFile">>
    /\ transforms = <<"decrypt">>
    /\ Previous.action = "encrypt"
    /\ Previous.result = "success"
    /\ inputFilePath = Previous.output

(***************************************************************************)
(* C1: round trip.  When a run encrypts a file holding P with key K and    *)
(* succeeds, and the next run decrypts the file it wrote with the same K   *)
(* and succeeds, the decrypted output file holds exactly P.                *)
(***************************************************************************)
C1_RoundTrip ==
    /\ DecryptsPrevious
    /\ encryptionKey = Previous.key
    => /\ inputFileData = Previous.written
       /\ failedAt # "transform"
       /\ pc \in {"Writing", "Written", "Terminal"} => outputData = Previous.read
       /\ pc \in {"Written", "Terminal"} /\ failedAt = "none" =>
             /\ outputFilePath \in DOMAIN fs
             /\ fs[outputFilePath] = Previous.read

C1_Witness ==
    /\ DecryptsPrevious
    /\ encryptionKey = Previous.key
    /\ encryptionKey = "k1"
    /\ pc = "Terminal"
    /\ failedAt = "none"
    /\ Previous.input = "a.txt"
    /\ Previous.output = "a.txt.enc"
    /\ outputFilePath = "a.txt.enc.txt"
    /\ Previous.read = <<1, WideChar>>
    /\ fs["a.txt.enc.txt"] = <<1, WideChar>>

(***************************************************************************)
(* C7 as stated: decrypting with a key other than the encryption key       *)
(* raises no error, takes the success path, and yields text different from *)
(* P.                                                                      *)
(***************************************************************************)
C7_Original ==
    /\ DecryptsPrevious
    /\ encryptionKey # Previous.key
    => /\ failedAt # "transform"
       /\ pc \in {"Writing", "Written"} => outputData # Previous.read
       /\ pc = "Terminal" /\ failedAt = "none" =>
             stdout = <<SuccessText>> /\ fs[outputFilePath] # Previous.read

\* the bytes the cipher recovers from the input of the current run
RecoveredBytes ==
    LET p == OpenSSLParse(inputFileData)
    IN  Pkcs7Unpad(CbcDecrypt(p.ct, Kdf(encryptionKey, p.salt)))

(***************************************************************************)
(* C7 amended: decrypting with a key other than the encryption key is not  *)
(* treated specially and no integrity check is made.  The recovered bytes  *)
(* are decoded as UTF-8: if that decoding throws, the failure path is      *)
(* taken (nothing written, "Failed to decrypt <input>.", exit code 0);     *)
(* otherwise the decoded text, whatever it is, empty or not, is written to *)
(* the output path and the success line is printed.                        *)
(***************************************************************************)
C7_WrongKey ==
    /\ DecryptsPrevious
    /\ encryptionKey # Previous.key
    => /\ failedAt = "transform" <=> Utf8Stringify(RecoveredBytes) = Malformed
       /\ failedAt = "transform" =>
             /\ writes = <<>> /\ fs = fs0
             /\ pc = "Terminal" =>
                   stderr = <<Trace, FailureText>> /\ stdout = <<>> /\ exitCode = 0
       /\ failedAt # "transform" => outputData = Utf8Stringify(RecoveredBytes).s
       /\ failedAt = "none" /\ pc = "Terminal" =>
             /\ stdout = <<SuccessText>> /\ stderr = <<>> /\ exitCode = 0
             /\ fs[outputFilePath] = Utf8Stringify(RecoveredBytes).s

C7_Witness ==
    /\ DecryptsPrevious
    /\ encryptionKey # Previous.key
    /\ pc = "Terminal"
    /\ failedAt = "none"
    /\ Previous.read = <<>>
    /\ fs[outputFilePath] = <<>>
    /\ stdout = <<SuccessText>>

(***************************************************************************)
(* C8: without --key/-k the key is the literal 'mySecretKey', for encrypt  *)
(* and for decrypt; with the option it is the option's value.  A file      *)
(* encrypted without the option is restored by a decrypt without the       *)
(* option and by a decrypt with --key mySecretKey.                         *)
(***************************************************************************)
KeysGiven(a) == OptionValues(a, "key", "k")

C8_DefaultKey ==
    /\ calls # <<>> =>
          IF KeysGiven(argv) = {} THEN encryptionKey = "mySecretKey"
          ELSE encryptionKey \in KeysGiven(argv)
    /\ transforms = <<"encrypt">> /\ KeysGiven(argv) = {} =>
          \E salt \in Salts : outputData = Encrypt(inputFileData, "mySecretKey", salt)
    /\ transforms = <<"encrypt">> /\ KeysGiven(argv) = {"k1"} =>
          \E salt \in Salts : outputData = Encrypt(inputFileData, "k1", salt)
    /\ /\ DecryptsPrevious
       /\ KeysGiven(Previous.argv) = {}
       /\ KeysGiven(argv) \in {{}, {"mySecretKey"}}
       => /\ failedAt # "transform"
          /\ outputData = Previous.read
          /\ pc = "Terminal" /\ failedAt = "none" => fs[outputFilePath] = Previous.read

C8_Witness ==
    /\ DecryptsPrevious
    /\ KeysGiven(Previous.argv) = {}
    /\ KeysGiven(argv) = {"mySecretKey"}
    /\ pc = "Terminal"
    /\ failedAt = "none"
    /\ Previous.read # <<>>
    /\ fs[outputFilePath] = Previous.read

====
